---- MODULE Spec2Model ----
(***************************************************************************)
(* Retrieval, caching, hybrid search and output validation of              *)
(* cv_gen/services/rag_service.py (EnhancedRAGService), with the           *)
(* EmbeddingService it calls and the KnowledgeBase / RAGCache tables it    *)
(* reads and writes.                                                       *)
(*                                                                         *)
(* A Python str is a sequence of one-character strings; None is the        *)
(* one-element sequence None.  Numbers with a fractional part are kept as  *)
(* integers: confidence in hundredths, cosine similarities as exact        *)
(* comparisons of integer dot products and squared norms.                  *)
(*                                                                         *)
(* Left abstract: the sentence-transformer (ModelEncode is a deterministic *)
(* stand-in), SHA-256 (collision-free), the scores printed inside the      *)
(* issue texts, logging, and failures of the database itself.              *)
(*                                                                         *)
(* Three specifications: Spec (cached retrieval over an edited corpus),    *)
(* SpecHybrid (one hybrid_search call on every small corpus) and           *)
(* SpecValidate (one validate_generation call on every input).             *)
(***************************************************************************)
EXTENDS Integers, Sequences, FiniteSets, TLC

VARIABLES kb, cache, ret, nsteps

vars == <<kb, cache, ret, nsteps>>

-----------------------------------------------------------------------------
(* Bounds of the exploration *)

\* the longest run of operations explored
MaxSteps == 3

\* the largest top_k a caller passes
MaxK == 2

-----------------------------------------------------------------------------
(* Python values *)

None == <<"<None>">>

\* truthiness of an Optional[str]: None and "" are falsy
Truthy(x) == x # None /\ x # <<>>

\* str(x) inside an f-string
Str(x) == IF x = None THEN <<"N", "o", "n", "e">> ELSE x

Whitespace == {" ", "\t", "\n"}

Digits == {"0", "1", "2", "3", "4", "5", "6", "7", "8", "9"}

LowerChar(c) ==
    CASE c = "A" -> "a" [] c = "B" -> "b" [] c = "C" -> "c" [] c = "D" -> "d"
      [] c = "E" -> "e" [] c = "F" -> "f" [] c = "G" -> "g" [] c = "H" -> "h"
      [] c = "I" -> "i" [] c = "J" -> "j" [] c = "K" -> "k" [] c = "L" -> "l"
      [] c = "M" -> "m" [] c = "N" -> "n" [] c = "O" -> "o" [] c = "P" -> "p"
      [] c = "Q" -> "q" [] c = "R" -> "r" [] c = "S" -> "s" [] c = "T" -> "t"
      [] c = "U" -> "u" [] c = "V" -> "v" [] c = "W" -> "w" [] c = "X" -> "x"
      [] c = "Y" -> "y" [] c = "Z" -> "z"
      [] OTHER -> c

\* str.lower()
Lower(s) == [i \in 1..Len(s) |-> LowerChar(s[i])]

\* str.strip()
Strip(s) ==
    LET nonws == {i \in 1..Len(s) : s[i] \notin Whitespace}
    IN  IF nonws = {} THEN <<>>
        ELSE LET lo == CHOOSE i \in nonws : \A j \in nonws : i <= j
                 hi == CHOOSE i \in nonws : \A j \in nonws : j <= i
             IN  SubSeq(s, lo, hi)

\* str.split(): the maximal runs of non-whitespace characters, in order
Split(s) ==
    LET starts == {i \in 1..Len(s) : s[i] \notin Whitespace
                                      /\ (i = 1 \/ s[i-1] \in Whitespace)}
        EndOf(i) == CHOOSE j \in i..Len(s) :
                        /\ \A m \in i..j : s[m] \notin Whitespace
                        /\ (j = Len(s) \/ s[j+1] \in Whitespace)
        Nth(n) == CHOOSE i \in starts : Cardinality({j \in starts : j < i}) = n - 1
    IN  [n \in 1..Cardinality(starts) |-> SubSeq(s, Nth(n), EndOf(Nth(n)))]

\* sub in s
Contains(s, sub) ==
    \E i \in 1..(Len(s) - Len(sub) + 1) : SubSeq(s, i, i + Len(sub) - 1) = sub

\* s repeated n times
RECURSIVE Rep(_, _)
Rep(s, n) == IF n = 0 THEN <<>> ELSE s \o Rep(s, n - 1)

Min(a, b) == IF a <= b THEN a ELSE b

\* list.sort(key=..., reverse=True): a stable sort; gt is the set of the pairs
\* <<a, b>> with key(a) > key(b)
SortDesc(s, gt) ==
    LET n == Len(s)
        pos(i) == Cardinality({j \in 1..n : <<s[j], s[i]>> \in gt})
                  + Cardinality({j \in 1..(i-1) : /\ <<s[i], s[j]>> \notin gt
                                                   /\ <<s[j], s[i]>> \notin gt})
                  + 1
    IN  [p \in 1..n |-> s[CHOOSE i \in 1..n : pos(i) = p]]

\* next((r for r in seq if r.id in ids), None): the one-element list of the first
\* element of seq that is in ids, the empty list for None
NextIn(seq, ids) ==
    LET hits == {i \in 1..Len(seq) : seq[i] \in ids}
    IN  IF hits = {} THEN <<>>
        ELSE <<seq[CHOOSE i \in hits : \A j \in hits : i <= j]>>

Range(s) == {s[i] : i \in 1..Len(s)}

-----------------------------------------------------------------------------
(* Embeddings *)

\* a failed embedding: generate_embedding returns None
NoVec == <<>>

RECURSIVE DotUpTo(_, _, _)
DotUpTo(a, b, n) == IF n = 0 THEN 0 ELSE a[n] * b[n] + DotUpTo(a, b, n - 1)

\* numpy dot of two vectors of one length
Dot(a, b) == DotUpTo(a, b, Len(a))

LowLetters == {"a", "b", "c", "d", "e", "f", "g", "h", "i", "j", "k", "l", "m"}

HighLetters == {"n", "o", "p", "q", "r", "s", "t", "u", "v", "w", "x", "y", "z"}

Count(s, S) == Cardinality({i \in 1..Len(s) : s[i] \in S})

\* SentenceTransformer.encode: an external model, deterministic for a text.
\* Stand-in: the counts of the text's characters in three classes.
ModelEncode(text) ==
    LET t == Lower(text)
    IN  << Count(t, LowLetters), Count(t, HighLetters),
           Len(t) - Count(t, LowLetters \cup HighLetters \cup Whitespace) >>

\* EmbeddingService.generate_embedding; backend_ok = FALSE: model.encode raises
generate_embedding(text, backend_ok) ==
    IF ~Truthy(text) THEN NoVec
    ELSE IF Len(Strip(text)) = 0 THEN NoVec
    ELSE IF ~backend_ok THEN NoVec
    ELSE ModelEncode(Strip(text))

\* sklearn cosine_similarity([a], [b]) raises on None and on unequal lengths
CosineRaises(a, b) == a = NoVec \/ b = NoVec \/ Len(a) # Len(b)

\* cosine_similarity(a, b) >= num/den, for 0 < num/den; a zero vector scores 0
CosineGE(a, b, num, den) ==
    /\ Dot(a, a) > 0
    /\ Dot(b, b) > 0
    /\ Dot(a, b) > 0
    /\ den * den * Dot(a, b) * Dot(a, b) >= num * num * Dot(a, a) * Dot(b, b)

\* cosine_similarity(q, a) > cosine_similarity(q, b)
CosineGt(q, a, b) ==
    LET da == IF Dot(a, a) = 0 THEN 0 ELSE Dot(q, a)
        db == IF Dot(b, b) = 0 THEN 0 ELSE Dot(q, b)
        na == IF Dot(a, a) = 0 THEN 1 ELSE Dot(a, a)
        nb == IF Dot(b, b) = 0 THEN 1 ELSE Dot(b, b)
    IN  IF da >= 0 /\ db < 0 THEN TRUE
        ELSE IF da < 0 /\ db >= 0 THEN FALSE
        ELSE IF da >= 0 THEN da * da * nb > db * db * na
        ELSE da * da * nb < db * db * na

-----------------------------------------------------------------------------
(* The corpus: KnowledgeBase rows *)

Accountant == <<"A", "c", "c", "t">>

Manager == <<"M", "g", "r">>

summary == <<"s", "u", "m", "m", "a", "r", "y">>

skill == <<"s", "k", "i", "l", "l">>

Ids == 1..4

\* the rows above and two whose scoring fields are unset: 5 has no word_count,
\* 6 no confidence_score
AllIds == 1..6

\* the rows above, one whose embedding has two components where the others have
\* three (7), and one whose embedding is a multiple of that of row 1 (8)
ScoreIds == 1..8

\* The columns no operation of this model edits.  created_at grows with the id;
\* confidence_score is in hundredths.
EntryTable ==
    [i \in ScoreIds |->
        CASE i = 1 -> [title |-> <<"L", "e", "a", "d">>,
                       content |-> <<"L", "e", "d", " ", "a", " ", "t", "e", "a", "m", " ", "o", "f", " ", "5">>,
                       content_type |-> "job_description", json_ok |-> TRUE,
                       vec |-> <<3, 1, 0>>, confidence_score |-> 100,
                       word_count |-> 400, created_at |-> 1]
          []  i = 2 -> [title |-> <<"T", "e", "a", "m">>,
                       content |-> <<"b", "u", "i", "l", "t", " ", "s", "q", "l", " ", "t", "e", "a", "m">>,
                       content_type |-> "bullet", json_ok |-> TRUE,
                       vec |-> <<6, 1, 0>>, confidence_score |-> 80,
                       word_count |-> 3, created_at |-> 2]
          []  i = 3 -> [title |-> <<"s", "q", "l">>,
                       content |-> <<"t", "e", "a", "m", " ", "l", "e", "d", " ", "s", "q", "l">>,
                       content_type |-> "paragraph", json_ok |-> TRUE,
                       vec |-> <<1, 2, 0>>, confidence_score |-> 90,
                       word_count |-> 600, created_at |-> 3]
          []  i = 4 -> [title |-> <<"b", "a", "d">>,
                       content |-> <<"l", "e", "d", " ", "t", "e", "a", "m">>,
                       content_type |-> "other", json_ok |-> FALSE,
                       vec |-> <<>>, confidence_score |-> 100,
                       word_count |-> 2, created_at |-> 4]
          []  i = 5 -> [title |-> <<"l", "e", "d">>,
                       content |-> <<"l", "e", "d", " ", "a", "l", "l">>,
                       content_type |-> "paragraph", json_ok |-> TRUE,
                       vec |-> <<5, 1, 0>>, confidence_score |-> 90,
                       created_at |-> 5]
          []  i = 6 -> [title |-> <<"a", "d">>,
                       content |-> <<"m", "a", "d", "e", " ", "a", "d">>,
                       content_type |-> "bullet", json_ok |-> TRUE,
                       vec |-> <<2, 1, 0>>, word_count |-> 2,
                       created_at |-> 6]
          []  i = 7 -> [title |-> <<"o", "l", "d">>,
                       content |-> <<"o", "l", "d", " ", "t", "e", "a", "m">>,
                       content_type |-> "paragraph", json_ok |-> TRUE,
                       vec |-> <<6, 1>>, confidence_score |-> 90,
                       word_count |-> 100, created_at |-> 7]
          []  i = 8 -> [title |-> <<"t", "w", "i", "n">>,
                       content |-> <<"l", "e", "d", " ", "t", "w", "o">>,
                       content_type |-> "achievement", json_ok |-> TRUE,
                       vec |-> <<6, 2, 0>>, confidence_score |-> 70,
                       word_count |-> 50, created_at |-> 8]]

Professions == {Accountant, Manager}

Sections == {summary, skill}

\* KnowledgeBase.objects.all() at construction
InitialFacets ==
    [i \in Ids |->
        CASE i = 1 -> [profession |-> Accountant, cv_section |-> summary]
          []  i = 2 -> [profession |-> Accountant, cv_section |-> summary]
          []  i = 3 -> [profession |-> Manager, cv_section |-> summary]
          []  i = 4 -> [profession |-> Accountant, cv_section |-> skill]]

\* Meta.ordering = ['-created_at']: the ids of a set of rows, newest first
OrderedRows(ids) ==
    LET n == Cardinality(ids)
        rank(i) == Cardinality({j \in ids : EntryTable[j].created_at > EntryTable[i].created_at}) + 1
    IN  [p \in 1..n |-> CHOOSE i \in ids : rank(i) = p]

\* the slice kb_query[:2000]
ScanCap == 2000

\* seq[:n] for n >= 0
Take(seq, n) == SubSeq(seq, 1, Min(n, Len(seq)))

\* .filter(profession=...) / .filter(cv_section=...), each only for a truthy filter
FacetFiltered(rows, profession, cv_section) ==
    {i \in DOMAIN rows :
        /\ (Truthy(profession) => rows[i].profession = profession)
        /\ (Truthy(cv_section) => rows[i].cv_section = cv_section)}

\* json.loads of the column, None when it does not parse
parse_embedding_vector(i) ==
    IF EntryTable[i].json_ok THEN EntryTable[i].vec ELSE NoVec

-----------------------------------------------------------------------------
(* Re-ranking *)

ContentTypeScore(ct) ==
    CASE ct = "job_description" -> 10
      [] ct = "paragraph" -> 8
      [] ct = "bullet" -> 6
      [] ct = "achievement" -> 7
      [] OTHER -> 5

\* total_score * 5000 = 0.3 * min(wc/500, 1) + 0.4 * confidence + 0.3 * type score
TotalScore(i) ==
    3 * Min(EntryTable[i].word_count, 500)
    + 20 * EntryTable[i].confidence_score
    + 150 * ContentTypeScore(EntryTable[i].content_type)

\* lines 257-260: word_count / 500 or confidence * 0.4 on None raises TypeError
ScoringRaises(i) ==
    ~ ({"word_count", "confidence_score"} \subseteq DOMAIN EntryTable[i])

\* an exception inside the try block of _rerank_results
RerankRaises(results) == \E n \in 1..Len(results) : ScoringRaises(results[n])

\* a re-ranking that, on a failure, returns the entries it could score
RerankDroppingUnscored(results) ==
    LET Scored(i) == ~ScoringRaises(i)
    IN  SelectSeq(results, Scored)

\* _rerank_results(query_text, results), called without top_k; the except branch
\* (lines 282-284) returns the list it was given
rerank_results(results) ==
    IF results = <<>> THEN results
    ELSE IF RerankRaises(results) THEN results
    ELSE SortDesc(results, {ab \in Range(results) \X Range(results) :
                               TotalScore(ab[1]) > TotalScore(ab[2])})

-----------------------------------------------------------------------------
(* The query cache: RAGCache rows, keyed by query_hash *)

\* hashlib.sha256(...).hexdigest(), taken as collision-free: the digest of a key
\* string is identified with the key string
Sha256(s) == s

\* f"{query_text}_{profession}_{cv_section}"
get_query_hash(query_text, profession, cv_section) ==
    Sha256(Str(query_text) \o <<"_">> \o Str(profession) \o <<"_">> \o Str(cv_section))

-----------------------------------------------------------------------------
(* retrieve_similar_examples *)

\* a scoring that keeps a row whose vector does not parse, with a score of zero
SimilaritiesUnparsedAsZero(rows, query_text, profession, cv_section, backend_ok) ==
    LET query_embedding == generate_embedding(query_text, backend_ok)
        kb_entries == Take(OrderedRows(FacetFiltered(rows, profession, cv_section)), ScanCap)
        Kept(i) == \/ parse_embedding_vector(i) = NoVec
                   \/ ~CosineRaises(query_embedding, parse_embedding_vector(i))
    IN  SelectSeq(kb_entries, Kept)

\* lines 88-131: embed the query, filter, and score the rows in scan order; a row
\* whose vector does not parse (continue) or whose cosine_similarity raises (the
\* inner except) gets no entry in `similarities`
Similarities(rows, query_text, profession, cv_section, backend_ok) ==
    LET query_embedding == generate_embedding(query_text, backend_ok)
        kb_entries == Take(OrderedRows(FacetFiltered(rows, profession, cv_section)), ScanCap)
        Scored(i) == /\ parse_embedding_vector(i) # NoVec
                     /\ ~CosineRaises(query_embedding, parse_embedding_vector(i))
    IN  SelectSeq(kb_entries, Scored)

\* line 135: similarities.sort(key=score, reverse=True)
Ranked(rows, query_text, profession, cv_section, backend_ok) ==
    LET query_embedding == generate_embedding(query_text, backend_ok)
        similarities == Similarities(rows, query_text, profession, cv_section, backend_ok)
    IN  SortDesc(similarities,
            {ab \in Range(similarities) \X Range(similarities) :
                CosineGt(query_embedding, parse_embedding_vector(ab[1]),
                         parse_embedding_vector(ab[2]))})

\* lines 88-138: embed the query, filter, score, sort, cut to top_k
RankedTopK(rows, query_text, profession, cv_section, top_k, backend_ok) ==
    Take(Ranked(rows, query_text, profession, cv_section, backend_ok), top_k)

\* a retrieval whose re-ranking failure reaches the outer except (return [])
ComputeResultsRerankEscapes(rows, query_text, profession, cv_section, top_k, backend_ok) ==
    LET top_results == RankedTopK(rows, query_text, profession, cv_section, top_k,
                                  backend_ok)
    IN  IF RerankRaises(top_results) THEN <<>> ELSE rerank_results(top_results)

\* a retrieval that re-ranks every scored row and cuts to top_k afterwards
ComputeResultsRerankThenCut(rows, query_text, profession, cv_section, top_k, backend_ok) ==
    Take(rerank_results(Ranked(rows, query_text, profession, cv_section, backend_ok)),
         top_k)

\* lines 88-142: the ranked top_k, re-ranked
ComputeResults(rows, query_text, profession, cv_section, top_k, backend_ok) ==
    rerank_results(RankedTopK(rows, query_text, profession, cv_section, top_k,
                              backend_ok))

\* _get_cached_results, lines 504-506: the record found is saved with hit_count + 1
CacheAfterLookup(c, key) ==
    IF key \in DOMAIN c
    THEN [c EXCEPT ![key].hit_count = @ + 1]
    ELSE c

\* a hit served from the stored list as it was written
CachedResultsSnapshot(rows, c, key) == c[key].result_ids

\* _get_cached_results, lines 508-512: the stored ids resolved against the corpus
CachedResults(rows, c, key) ==
    OrderedRows({i \in Range(c[key].result_ids) : i \in DOMAIN rows})

\* _cache_results: RAGCache.objects.update_or_create(query_hash=..., defaults=...)
CacheAfterStore(c, key, query_text, profession, cv_section, results) ==
    LET row == [profession |-> IF Truthy(profession) THEN profession
                               ELSE <<"G", "e", "n", "e", "r", "a", "l">>,
                cv_section |-> IF Truthy(cv_section) THEN cv_section
                               ELSE <<"a", "l", "l">>,
                query_text |-> query_text,
                result_ids |-> results,
                count |-> Len(results),
                \* not among the defaults: kept on update, 0 on create
                hit_count |-> IF key \in DOMAIN c THEN c[key].hit_count ELSE 0]
    IN  [k \in DOMAIN c \cup {key} |-> IF k = key THEN row ELSE c[k]]

\* a lookup made whatever use_cache says
CachedWhateverUseCache(rows, c, key, use_cache) ==
    IF key \in DOMAIN c THEN CachedResults(rows, c, key) ELSE <<>>

\* lines 81-86: the cached list, when use_cache and the lookup found a record
Cached(rows, c, key, use_cache) ==
    IF use_cache /\ key \in DOMAIN c THEN CachedResults(rows, c, key) ELSE <<>>

\* a hit on any record found, whatever its ids resolve to
IsHitOnAnyRecord(rows, c, key, use_cache) == use_cache /\ key \in DOMAIN c

\* `if cached:` -- a non-empty list
IsHit(rows, c, key, use_cache) == Cached(rows, c, key, use_cache) # <<>>

\* the list the call returns
RetrieveResult(rows, c, query_text, profession, cv_section, top_k, use_cache, backend_ok) ==
    LET key == get_query_hash(query_text, profession, cv_section)
    IN  IF IsHit(rows, c, key, use_cache)
        THEN Cached(rows, c, key, use_cache)
        ELSE ComputeResults(rows, query_text, profession, cv_section, top_k, backend_ok)

\* a call that writes the cache before it re-ranks
RetrieveCacheBeforeRerank(rows, c, query_text, profession, cv_section, top_k, use_cache, backend_ok) ==
    LET key == get_query_hash(query_text, profession, cv_section)
        looked == IF use_cache THEN CacheAfterLookup(c, key) ELSE c
    IN  IF IsHit(rows, c, key, use_cache) \/ ~use_cache
        THEN looked
        ELSE CacheAfterStore(looked, key, query_text, profession, cv_section,
                 RankedTopK(rows, query_text, profession, cv_section, top_k, backend_ok))

\* the RAGCache table after the call
RetrieveCache(rows, c, query_text, profession, cv_section, top_k, use_cache, backend_ok) ==
    LET key == get_query_hash(query_text, profession, cv_section)
        looked == IF use_cache THEN CacheAfterLookup(c, key) ELSE c
    IN  IF IsHit(rows, c, key, use_cache) \/ ~use_cache
        THEN looked
        ELSE CacheAfterStore(looked, key, query_text, profession, cv_section,
                 ComputeResults(rows, query_text, profession, cv_section, top_k, backend_ok))

\* a retrieval that also deletes the rows whose embedding does not parse
RetrievePurgingUnparsable(query_text, profession, cv_section, top_k, use_cache, backend_ok) ==
    /\ cache' = RetrieveCache(kb, cache, query_text, profession, cv_section, top_k,
                              use_cache, backend_ok)
    /\ ret' = [op |-> "retrieve", query_text |-> query_text, profession |-> profession,
               cv_section |-> cv_section, top_k |-> top_k, use_cache |-> use_cache,
               backend_ok |-> backend_ok,
               path |-> IF IsHit(kb, cache, get_query_hash(query_text, profession, cv_section),
                                 use_cache)
                        THEN "hit" ELSE "miss",
               result |-> RetrieveResult(kb, cache, query_text, profession, cv_section,
                                         top_k, use_cache, backend_ok)]
    /\ kb' = [i \in {j \in DOMAIN kb : parse_embedding_vector(j) # NoVec} |-> kb[i]]

retrieve_similar_examples(query_text, profession, cv_section, top_k, use_cache, backend_ok) ==
    /\ cache' = RetrieveCache(kb, cache, query_text, profession, cv_section, top_k,
                              use_cache, backend_ok)
    /\ ret' = [op |-> "retrieve", query_text |-> query_text, profession |-> profession,
               cv_section |-> cv_section, top_k |-> top_k, use_cache |-> use_cache,
               backend_ok |-> backend_ok,
               path |-> IF IsHit(kb, cache, get_query_hash(query_text, profession, cv_section),
                                 use_cache)
                        THEN "hit" ELSE "miss",
               result |-> RetrieveResult(kb, cache, query_text, profession, cv_section,
                                         top_k, use_cache, backend_ok)]
    /\ UNCHANGED kb

-----------------------------------------------------------------------------
(* hybrid_search *)

\* lines 197-211: the rows holding every keyword in title or content, newest first
KeywordResults(rows, query_text, profession, cv_section, top_k) ==
    LET keywords == Split(Lower(query_text))
        IContains(text, kw) == Contains(Lower(text), Lower(kw))
        matching == {i \in FacetFiltered(rows, profession, cv_section) :
                        \A n \in 1..Len(keywords) :
                            \/ IContains(EntryTable[i].title, keywords[n])
                            \/ IContains(EntryTable[i].content, keywords[n])}
    IN  Take(OrderedRows(matching), top_k)

\* lines 215-221: one pick per id of all_ids, each pick the first semantic result
\* whose id is in all_ids, or else the first such keyword result
Combine(semantic_results, keyword_results) ==
    LET all_ids == Range(semantic_results) \cup Range(keyword_results)
        pick == IF NextIn(semantic_results, all_ids) # <<>>
                THEN NextIn(semantic_results, all_ids)
                ELSE NextIn(keyword_results, all_ids)
    IN  IF pick = <<>> THEN <<>>
        ELSE [n \in 1..Cardinality(all_ids) |-> pick[1]]

\* lines 181-224; the semantic search is retrieve_similar_examples with
\* use_cache=False, which neither reads nor writes the cache
HybridResult(rows, query_text, profession, cv_section, top_k, backend_ok) ==
    Take(Combine(ComputeResults(rows, query_text, profession, cv_section, top_k, backend_ok),
                 KeywordResults(rows, query_text, profession, cv_section, top_k)),
         top_k)

hybrid_search(query_text, profession, cv_section, top_k, backend_ok) ==
    /\ ret' = [op |-> "hybrid", query_text |-> query_text, profession |-> profession,
               cv_section |-> cv_section, top_k |-> top_k,
               semantic |-> ComputeResults(kb, query_text, profession, cv_section,
                                           top_k, backend_ok),
               keyword |-> KeywordResults(kb, query_text, profession, cv_section, top_k),
               result |-> HybridResult(kb, query_text, profession, cv_section, top_k,
                                       backend_ok)]
    /\ UNCHANGED <<kb, cache>>

-----------------------------------------------------------------------------
(* The corpus is edited by its owner, outside the retrieval engine *)

NoCall == [op |-> "none"]

EditEntry(i, profession, cv_section) ==
    /\ i \in DOMAIN kb
    /\ kb[i] # [profession |-> profession, cv_section |-> cv_section]
    /\ kb' = [kb EXCEPT ![i] = [profession |-> profession, cv_section |-> cv_section]]
    /\ ret' = NoCall
    /\ UNCHANGED cache

DeleteEntry(i) ==
    /\ i \in DOMAIN kb
    /\ kb' = [j \in DOMAIN kb \ {i} |-> kb[j]]
    /\ ret' = NoCall
    /\ UNCHANGED cache

-----------------------------------------------------------------------------
(* Inputs *)

LedTeam == <<"l", "e", "d", " ", "t", "e", "a", "m">>

SQL == <<"S", "Q", "L">>

Blank == <<" ", " ">>

\* the query texts of the cached retrievals
QueryTexts == {LedTeam}

ProfessionFilters == {None, Accountant}

SectionFilters == {None, skill}

Init ==
    /\ kb = InitialFacets
    /\ cache = << >>
    /\ ret = NoCall
    /\ nsteps = 0

\* the embedding backend works in these runs; an empty result list comes from
\* filters no scorable row matches
Retrieve ==
    \E q \in QueryTexts, p \in ProfessionFilters, s \in SectionFilters,
       k \in 1..MaxK, uc \in BOOLEAN :
        retrieve_similar_examples(q, p, s, k, uc, TRUE)

Edit == \E i \in Ids, p \in Professions, s \in Sections : EditEntry(i, p, s)

Delete == \E i \in Ids : DeleteEntry(i)

\* runs of at most MaxSteps operations
Next ==
    \/ nsteps < MaxSteps /\ nsteps' = nsteps + 1 /\ Retrieve
    \/ nsteps < MaxSteps /\ nsteps' = nsteps + 1 /\ Edit
    \/ nsteps < MaxSteps /\ nsteps' = nsteps + 1 /\ Delete

Spec == Init /\ [][Next]_vars

-----------------------------------------------------------------------------
(* hybrid_search over every corpus of at most four rows *)

Facets == [profession : Professions, cv_section : Sections]

HybridQueryTexts == {LedTeam, SQL, Blank}

InitHybrid ==
    /\ \E present \in SUBSET Ids : kb \in [present -> Facets]
    /\ cache = << >>
    /\ ret = NoCall
    /\ nsteps = 0

Hybrid ==
    \E q \in HybridQueryTexts, p \in ProfessionFilters \cup {Manager},
       s \in SectionFilters \cup {summary}, k \in 1..MaxK, ok \in BOOLEAN :
        hybrid_search(q, p, s, k, ok)

\* one call on each corpus
NextHybrid == ret = NoCall /\ Hybrid /\ UNCHANGED nsteps

SpecHybrid == InitHybrid /\ [][NextHybrid]_vars

-----------------------------------------------------------------------------
(* validate_generation *)

TooShort == "Generated text too short"

LowRelevance == "Low relevance to query"

PoorGrounding == "Not well grounded in context"

TooFewWords == "Too few words"

AllChecksPassed == "All checks passed"

ValidationSkippedReason == "Validation skipped due to error"

ActionVerbs ==
    { <<"i", "m", "p", "l", "e", "m", "e", "n", "t", "e", "d">>,
      <<"d", "e", "v", "e", "l", "o", "p", "e", "d">>,
      <<"d", "e", "s", "i", "g", "n", "e", "d">>,
      <<"m", "a", "n", "a", "g", "e", "d">>,
      <<"l", "e", "d">>,
      <<"c", "r", "e", "a", "t", "e", "d">>,
      <<"b", "u", "i", "l", "t">> }

\* The embedding calls of one validate_generation call, in order: 1 the generated
\* text, 2 the query text, 2 + n the content of context_examples[n].  `failing` is
\* the set of calls on which model.encode raises.
GenEmbedding(generated_text, failing) ==
    generate_embedding(generated_text, 1 \notin failing)

QueryEmbedding(query_text, failing) ==
    generate_embedding(query_text, 2 \notin failing)

ContextEmbedding(context_examples, n, failing) ==
    generate_embedding(EntryTable[context_examples[n]].content, (2 + n) \notin failing)

\* an exception inside the try block: cosine_similarity on a None embedding
ValidationRaises(query_text, generated_text, context_examples, failing) ==
    \/ CosineRaises(GenEmbedding(generated_text, failing),
                    QueryEmbedding(query_text, failing))
    \/ \E n \in 1..Len(context_examples) :
          CosineRaises(GenEmbedding(generated_text, failing),
                       ContextEmbedding(context_examples, n, failing))

\* max(grounding_scores) if grounding_scores else 0, compared with 0.2
GroundingBelowThreshold(generated_text, context_examples, failing) ==
    ~ \E n \in 1..Len(context_examples) :
          CosineGE(GenEmbedding(generated_text, failing),
                   ContextEmbedding(context_examples, n, failing), 2, 10)

\* the list `issues` at line 371, in the order the checks append to it
Issues(query_text, generated_text, context_examples, failing) ==
    (IF Len(Strip(generated_text)) < 50 THEN <<TooShort>> ELSE <<>>)
    \o (IF ~CosineGE(GenEmbedding(generated_text, failing),
                     QueryEmbedding(query_text, failing), 3, 10)
        THEN <<LowRelevance>> ELSE <<>>)
    \o (IF GroundingBelowThreshold(generated_text, context_examples, failing)
        THEN <<PoorGrounding>> ELSE <<>>)
    \o (IF Len(Split(generated_text)) < 30 THEN <<TooFewWords>> ELSE <<>>)

has_numbers(generated_text) ==
    \E i \in 1..Len(generated_text) : generated_text[i] \in Digits

has_action_verbs(generated_text) ==
    \E verb \in ActionVerbs : Contains(Lower(generated_text), verb)

\* a confidence that a too-short text lowers as well
ConfidenceChargingLength(generated_text) ==
    100 - (IF has_numbers(generated_text) THEN 0 ELSE 10)
        - (IF has_action_verbs(generated_text) THEN 0 ELSE 15)
        - (IF Len(Strip(generated_text)) < 50 THEN 20 ELSE 0)

\* confidence in hundredths, lines 363-369
Confidence(generated_text) ==
    LET c == 100 - (IF has_numbers(generated_text) THEN 0 ELSE 10)
                 - (IF has_action_verbs(generated_text) THEN 0 ELSE 15)
    IN  IF c < 0 THEN 0 ELSE c

\* line 371 without its first conjunct
IsValidIgnoringIssues(issues, confidence) == confidence > 50

\* line 371
IsValid(issues, confidence) == Len(issues) = 0 /\ confidence > 50

\* line 372: the issues joined, or the all-passed text
Reason(issues) == IF issues # <<>> THEN issues ELSE <<AllChecksPassed>>

\* an except branch that rejects instead of passing
ValidationSkippedRejecting ==
    [is_valid |-> FALSE, reason |-> <<ValidationSkippedReason>>, confidence |-> 50]

\* the except branch, lines 379-381
ValidationSkipped ==
    [is_valid |-> TRUE, reason |-> <<ValidationSkippedReason>>, confidence |-> 50]

ValidateResult(query_text, generated_text, context_examples, failing) ==
    IF ValidationRaises(query_text, generated_text, context_examples, failing)
    THEN ValidationSkipped
    ELSE LET issues == Issues(query_text, generated_text, context_examples, failing)
         IN  [is_valid |-> IsValid(issues, Confidence(generated_text)),
              reason |-> Reason(issues),
              confidence |-> Confidence(generated_text)]

validate_generation(query_text, generated_text, context_examples, failing) ==
    /\ ret' = [op |-> "validate", query_text |-> query_text,
               generated_text |-> generated_text,
               context_examples |-> context_examples, failing |-> failing,
               out |-> ValidateResult(query_text, generated_text, context_examples,
                                      failing)]
    /\ UNCHANGED <<kb, cache>>

\* the longest context_examples list explored
MaxContext == 2

Led7 == <<"l", "e", "d", " ", "7", " ">>

Developed == <<"d", "e", "v", "e", "l", "o", "p", "e", "d", " ">>

Ab == <<"a", "b", " ">>

Xy1 == <<"x", "y", " ", "1", " ">>

GeneratedTexts ==
    { <<>>,
      <<" ", " ", " ">>,
      <<"L", "e", "d", " ", "5">>,
      <<"l", "e", "d", " ", "7", "7", "7", "7", "7">>,
      Rep(Led7, 15),
      Rep(Developed, 6),
      Rep(Ab, 30),
      <<"a", "b">> \o Rep(<<" ">>, 60),
      Rep(Xy1, 15) }

ValidateQueryTexts == {LedTeam, SQL, <<>>}

RECURSIVE SeqsUpTo(_, _)
SeqsUpTo(S, n) ==
    IF n = 0 THEN {<<>>}
    ELSE SeqsUpTo(S, n - 1)
         \cup {Append(s, x) : s \in {t \in SeqsUpTo(S, n - 1) : Len(t) = n - 1}, x \in S}

InitValidate ==
    /\ kb = InitialFacets
    /\ cache = << >>
    /\ ret = NoCall
    /\ nsteps = 0

Validate ==
    \E q \in ValidateQueryTexts, g \in GeneratedTexts,
       ctx \in SeqsUpTo(Ids, MaxContext) :
        \E failing \in SUBSET (1..(2 + Len(ctx))) :
            validate_generation(q, g, ctx, failing)

\* one call on each input
NextValidate == ret = NoCall /\ Validate /\ UNCHANGED nsteps

SpecValidate == InitValidate /\ [][NextValidate]_vars

-----------------------------------------------------------------------------
(* _rerank_results on its own, and inside a retrieval, with rows it cannot score *)

\* the longest list handed to _rerank_results directly
MaxRerank == 3

\* a direct call self._rerank_results(query_text, results)
CallRerank(results) ==
    /\ ret' = [op |-> "rerank", results |-> results, out |-> rerank_results(results)]
    /\ UNCHANGED <<kb, cache>>

\* every row an accountant's summary
InitRerank ==
    /\ \E present \in SUBSET AllIds :
          kb = [i \in present |-> [profession |-> Accountant, cv_section |-> summary]]
    /\ cache = << >>
    /\ ret = NoCall
    /\ nsteps = 0

Rerank == \E results \in SeqsUpTo(AllIds, MaxRerank) : CallRerank(results)

RetrieveUnscorable ==
    \E p \in ProfessionFilters, s \in SectionFilters, k \in 1..MaxK, uc \in BOOLEAN :
        retrieve_similar_examples(LedTeam, p, s, k, uc, TRUE)

\* one call on each corpus
NextRerank ==
    \/ ret = NoCall /\ Rerank /\ UNCHANGED nsteps
    \/ ret = NoCall /\ RetrieveUnscorable /\ UNCHANGED nsteps

SpecRerank == InitRerank /\ [][NextRerank]_vars

-----------------------------------------------------------------------------
(* _get_query_hash, reached with filters passed or left to their defaults *)

\* a default of '' in place of None
DefaultFilterEmpty == <<>>

\* profession: Optional[str] = None, cv_section: Optional[str] = None
DefaultFilter == None

\* the value bound to a parameter of retrieve_similar_examples: the keyword
\* argument when the caller passes one, the default otherwise
Param(kwargs, name) ==
    IF name \in DOMAIN kwargs THEN kwargs[name] ELSE DefaultFilter

\* the keyword arguments of a call: query_text always, each filter passed or omitted
HashKwargs ==
    {[query_text |-> q] @@ p @@ s :
        q \in {LedTeam, SQL, Blank, <<>>, SQL \o <<"_">> \o Accountant},
        p \in {<< >>} \cup {[profession |-> v] :
                               v \in {None, Accountant, Manager, <<"N", "o", "n", "e">>,
                                       Accountant \o <<"_">> \o Manager}},
        s \in {<< >>} \cup {[cv_section |-> v] : v \in {None, summary, skill}}}

\* the fingerprint computed for a call; `previous` keeps the call before it
CallQueryHash(kwargs) ==
    /\ ret' = [op |-> "hash", kwargs |-> kwargs,
               query_hash |-> get_query_hash(kwargs.query_text,
                                             Param(kwargs, "profession"),
                                             Param(kwargs, "cv_section")),
               previous |-> ret]
    /\ UNCHANGED <<kb, cache>>

QueryHash == \E kwargs \in HashKwargs : CallQueryHash(kwargs)

\* two calls, one after the other
NextHash ==
    (ret = NoCall \/ (ret.op = "hash" /\ ret.previous = NoCall))
    /\ QueryHash /\ UNCHANGED nsteps

SpecHash == Init /\ [][NextHash]_vars

-----------------------------------------------------------------------------
(* Concurrent retrieve_similar_examples calls with use_cache=True.  Each SQL      *)
(* statement is one step; the steps of the calls interleave freely.  Here cache   *)
(* is the RAGCache table as the list of its rows, a row's pk being its position,  *)
(* and ret.call holds each call's position and local variables.                   *)

\* the number of calls in flight
NumCallers == 2

Callers == 1..NumCallers

NoRow == [pk |-> 0, hit_count |-> 0, result_ids |-> <<>>]

Idle == [pc |-> "idle", profession |-> None, top_k |-> 0, obj |-> NoRow,
         results |-> <<>>, wrote |-> FALSE, out |-> <<>>]

\* the pks of the rows with a query_hash
RowsWith(table, query_hash) ==
    {n \in 1..Len(table) : table[n].query_hash = query_hash}

\* a table without the unique index
NoUniqueIndex(table, query_hash) == FALSE

\* query_hash = models.CharField(unique=True): an INSERT of a second row with the
\* query_hash fails with IntegrityError
UniqueViolation(table, query_hash) == RowsWith(table, query_hash) # {}

\* the model instance loaded from the row pk
Loaded(table, pk) ==
    [pk |-> pk, hit_count |-> table[pk].hit_count, result_ids |-> table[pk].result_ids]

\* every racing call asks for 'led team' without a section filter
RaceKey(c) == get_query_hash(LedTeam, ret.call[c].profession, None)

SetCall(c, local) == ret' = [ret EXCEPT !.call[c] = local]

\* the call is made
Begin(c, profession, top_k) ==
    /\ ret.call[c].pc = "idle"
    /\ SetCall(c, [ret.call[c] EXCEPT !.pc = "lookup", !.profession = profession,
                                       !.top_k = top_k])
    /\ UNCHANGED <<kb, cache>>

\* line 504: RAGCache.objects.get(query_hash=query_hash); DoesNotExist (or any
\* other exception) makes _get_cached_results return None
Lookup(c) ==
    /\ ret.call[c].pc = "lookup"
    /\ LET found == RowsWith(cache, RaceKey(c))
       IN  IF Cardinality(found) = 1
           THEN SetCall(c, [ret.call[c] EXCEPT !.pc = "bump",
                               !.obj = Loaded(cache, CHOOSE n \in found : TRUE)])
           ELSE SetCall(c, [ret.call[c] EXCEPT !.pc = "compute"])
    /\ UNCHANGED <<kb, cache>>

\* lines 505-512 and 84-86: the loaded hit_count + 1 is written back, the loaded
\* ids are resolved, and a non-empty list is returned
Bump(c) ==
    /\ ret.call[c].pc = "bump"
    /\ cache' = [cache EXCEPT ![ret.call[c].obj.pk].hit_count =
                                  ret.call[c].obj.hit_count + 1]
    /\ LET cached == OrderedRows({i \in Range(ret.call[c].obj.result_ids) :
                                      i \in DOMAIN kb})
       IN  IF cached # <<>>
           THEN SetCall(c, [ret.call[c] EXCEPT !.pc = "done", !.out = cached])
           ELSE SetCall(c, [ret.call[c] EXCEPT !.pc = "compute"])
    /\ UNCHANGED kb

\* lines 88-142
Compute(c) ==
    /\ ret.call[c].pc = "compute"
    /\ SetCall(c, [ret.call[c] EXCEPT !.pc = "uoc_get",
                       !.results = ComputeResults(kb, LedTeam, ret.call[c].profession,
                                                  None, ret.call[c].top_k, TRUE)])
    /\ UNCHANGED <<kb, cache>>

\* update_or_create, first statement: the SELECT of get_or_create
UocGet(c) ==
    /\ ret.call[c].pc = "uoc_get"
    /\ LET found == RowsWith(cache, RaceKey(c))
       IN  IF found = {}
           THEN SetCall(c, [ret.call[c] EXCEPT !.pc = "uoc_insert"])
           ELSE SetCall(c, [ret.call[c] EXCEPT !.pc = "uoc_update",
                               !.obj = Loaded(cache, CHOOSE n \in found : TRUE)])
    /\ UNCHANGED <<kb, cache>>

\* the row update_or_create writes for a call
RowOf(c, hit_count) ==
    [query_hash |-> RaceKey(c), result_ids |-> ret.call[c].results,
     count |-> Len(ret.call[c].results), hit_count |-> hit_count]

\* update_or_create, the INSERT of get_or_create: on IntegrityError the row that
\* is there is fetched and then updated
UocInsert(c) ==
    /\ ret.call[c].pc = "uoc_insert"
    /\ IF UniqueViolation(cache, RaceKey(c))
       THEN /\ SetCall(c, [ret.call[c] EXCEPT !.pc = "uoc_update",
                               !.obj = Loaded(cache, CHOOSE n \in RowsWith(cache, RaceKey(c)) : TRUE)])
            /\ UNCHANGED cache
       ELSE /\ cache' = Append(cache, RowOf(c, 0))
            /\ SetCall(c, [ret.call[c] EXCEPT !.pc = "done", !.wrote = TRUE,
                               !.out = ret.call[c].results])
    /\ UNCHANGED kb

\* update_or_create, the UPDATE of the row found: obj.save() writes every column,
\* the loaded hit_count among them, or only the columns of `defaults`, as the
\* installed Django does
UocUpdate(c) ==
    /\ ret.call[c].pc = "uoc_update"
    /\ \E every_column \in BOOLEAN :
          cache' = [cache EXCEPT ![ret.call[c].obj.pk] =
                       RowOf(c, IF every_column THEN ret.call[c].obj.hit_count
                                ELSE cache[ret.call[c].obj.pk].hit_count)]
    /\ SetCall(c, [ret.call[c] EXCEPT !.pc = "done", !.wrote = TRUE,
                       !.out = ret.call[c].results])
    /\ UNCHANGED kb

InitRace ==
    /\ kb = InitialFacets
    /\ cache = << >>
    /\ ret = [op |-> "race", call |-> [c \in Callers |-> Idle]]
    /\ nsteps = 0

NextRace ==
    \/ \E c \in Callers, p \in ProfessionFilters, k \in 1..MaxK :
          Begin(c, p, k) /\ UNCHANGED nsteps
    \/ \E c \in Callers : Lookup(c) /\ UNCHANGED nsteps
    \/ \E c \in Callers : Bump(c) /\ UNCHANGED nsteps
    \/ \E c \in Callers : Compute(c) /\ UNCHANGED nsteps
    \/ \E c \in Callers : UocGet(c) /\ UNCHANGED nsteps
    \/ \E c \in Callers : UocInsert(c) /\ UNCHANGED nsteps
    \/ \E c \in Callers : UocUpdate(c) /\ UNCHANGED nsteps

SpecRace == InitRace /\ [][NextRace]_vars

-----------------------------------------------------------------------------
(* One call of any of the four operations on the initial corpus *)

NextFrame ==
    \/ ret = NoCall /\ Retrieve /\ UNCHANGED nsteps
    \/ ret = NoCall /\ Hybrid /\ UNCHANGED nsteps
    \/ ret = NoCall /\ Rerank /\ UNCHANGED nsteps
    \/ ret = NoCall /\ Validate /\ UNCHANGED nsteps

SpecFrame == Init /\ [][NextFrame]_vars

-----------------------------------------------------------------------------
(* The scoring stage: one retrieval on each corpus drawn from the rows 1..8, the  *)
(* query text possibly empty or blank and the embedding backend possibly failing  *)

InitScore ==
    /\ \E present \in SUBSET ScoreIds :
          kb = [i \in present |-> [profession |-> Accountant, cv_section |-> summary]]
    /\ cache = << >>
    /\ ret = NoCall
    /\ nsteps = 0

RetrieveScored ==
    \E q \in {LedTeam, Blank, <<>>}, k \in 1..MaxK, uc \in BOOLEAN, ok \in BOOLEAN :
        retrieve_similar_examples(q, None, None, k, uc, ok)

\* one call on each corpus
NextScore == ret = NoCall /\ RetrieveScored /\ UNCHANGED nsteps

SpecScore == InitScore /\ [][NextScore]_vars

-----------------------------------------------------------------------------
(* retrieve_similar_examples with a database that can fail: `failure` names the   *)
(* statement that raises, if any                                                  *)

Failures == {"none", "cache_get", "corpus_read", "cache_write"}

\* an outer handler that lets the exception out
OuterExceptReraising == [result |-> <<>>, raised |-> TRUE]

\* lines 154-158: except Exception: ... return []
OuterExcept == [result |-> <<>>, raised |-> FALSE]

\* a call that writes its result to the cache whatever use_cache says
StoresIgnoringUseCache(use_cache, failure) == failure \notin {"corpus_read", "cache_write"}

\* lines 149-150 and 531-547: the record is written when use_cache holds, the
\* call got that far and update_or_create did not raise
Stores(use_cache, failure) ==
    use_cache /\ failure \notin {"corpus_read", "cache_write"}

\* the outcome of a call: the list returned, whether an exception left the call,
\* the path taken and the RAGCache table afterwards
RetrieveOutcome(rows, c, query_text, profession, cv_section, top_k, use_cache, backend_ok, failure) ==
    LET key == get_query_hash(query_text, profession, cv_section)
        \* line 504 found a record; a failing get makes _get_cached_results
        \* return None (lines 516-518)
        found == use_cache /\ failure # "cache_get" /\ key \in DOMAIN c
        looked == IF found THEN CacheAfterLookup(c, key) ELSE c
        \* line 512 raises when the corpus cannot be read: None again
        cached == IF found /\ failure # "corpus_read"
                  THEN CachedResults(rows, c, key) ELSE <<>>
        fresh == ComputeResults(rows, query_text, profession, cv_section, top_k,
                                backend_ok)
    IN  IF cached # <<>>
        THEN [result |-> cached, raised |-> FALSE, path |-> "hit", cache |-> looked]
        ELSE IF failure = "corpus_read"
        THEN OuterExcept @@ [path |-> "miss", cache |-> looked]
        ELSE [result |-> fresh, raised |-> FALSE, path |-> "miss",
              cache |-> IF Stores(use_cache, failure)
                        THEN CacheAfterStore(looked, key, query_text, profession,
                                             cv_section, fresh)
                        ELSE looked]

RetrieveWithFailure(query_text, profession, cv_section, top_k, use_cache, backend_ok, failure) ==
    LET outcome == RetrieveOutcome(kb, cache, query_text, profession, cv_section,
                                   top_k, use_cache, backend_ok, failure)
    IN  /\ cache' = outcome.cache
        /\ ret' = [op |-> "retrieve", query_text |-> query_text,
                   profession |-> profession, cv_section |-> cv_section,
                   top_k |-> top_k, use_cache |-> use_cache,
                   backend_ok |-> backend_ok, failure |-> failure,
                   path |-> outcome.path, raised |-> outcome.raised,
                   result |-> outcome.result]
        /\ UNCHANGED kb

RetrieveFailing ==
    \E k \in 1..MaxK, uc \in BOOLEAN, ok \in BOOLEAN, failure \in Failures :
        RetrieveWithFailure(LedTeam, None, None, k, uc, ok, failure)

\* runs of at most MaxSteps calls
NextFail == nsteps < MaxSteps /\ nsteps' = nsteps + 1 /\ RetrieveFailing

SpecFail == Init /\ [][NextFail]_vars

-----------------------------------------------------------------------------
(* The legacy RAGService (cv_gen/rag_service.py) and its EmbeddingService *)

achievement == <<"a", "c", "h", "i", "e", "v", "e", "m", "e", "n", "t">>

backend_developer == <<"b", "a", "c", "k", "e", "n", "d">>

general == <<"g", "e", "n", "e", "r", "a", "l">>

\* the category and role_type columns of the rows
LegacyColumns ==
    [i \in ScoreIds |->
        [category |-> IF i \in {3, 6} THEN skill ELSE achievement,
         role_type |-> IF i \in {2, 5} THEN general ELSE backend_developer]]

\* legacy EmbeddingService.generate_embedding: model.encode(text).tolist(), None
\* when encode raises; the text is neither checked nor stripped
legacy_generate_embedding(text, backend_ok) ==
    IF backend_ok THEN ModelEncode(text) ELSE NoVec

\* a vector that scores as calculate_similarity reports it: np.dot raises on
\* vectors of different lengths and the except branch returns 0.0, the score of a
\* zero vector here
ScoredAs(query_embedding, emb) ==
    IF Len(emb) # Len(query_embedding)
    THEN [n \in 1..Len(query_embedding) |-> 0]
    ELSE emb

\* lines 56-62: a row is scored when its embedding_vector is non-empty and parses
LegacyScored(i) == EntryTable[i].json_ok

\* RAGService.retrieve_similar_examples
LegacyResult(rows, query, category, role_type, count, backend_ok) ==
    LET query_embedding == legacy_generate_embedding(query, backend_ok)
        filtered == {i \in DOMAIN rows :
                        /\ (Truthy(category) => LegacyColumns[i].category = category)
                        /\ (Truthy(role_type) => LegacyColumns[i].role_type = role_type)}
        similarities == SelectSeq(OrderedRows(filtered), LegacyScored)
    IN  IF query_embedding = NoVec THEN <<>>
        ELSE Take(SortDesc(similarities,
                      {ab \in Range(similarities) \X Range(similarities) :
                          CosineGt(query_embedding,
                                   ScoredAs(query_embedding, EntryTable[ab[1]].vec),
                                   ScoredAs(query_embedding, EntryTable[ab[2]].vec))}),
                  count)

legacy_retrieve_similar_examples(query, category, role_type, count, backend_ok) ==
    /\ ret' = [op |-> "legacy", query |-> query, category |-> category,
               role_type |-> role_type, count |-> count, backend_ok |-> backend_ok,
               result |-> LegacyResult(kb, query, category, role_type, count,
                                       backend_ok)]
    /\ UNCHANGED <<kb, cache>>

LegacyRetrieve ==
    \E category \in {None, achievement}, role_type \in {None, backend_developer},
       count \in 1..MaxK, ok \in BOOLEAN :
        legacy_retrieve_similar_examples(LedTeam, category, role_type, count, ok)

\* one call on each corpus
NextLegacy == ret = NoCall /\ LegacyRetrieve /\ UNCHANGED nsteps

SpecLegacy == InitScore /\ [][NextLegacy]_vars

-----------------------------------------------------------------------------
(* Concurrent cache lookups (_get_cached_results) on one record *)

\* the number of lookups in flight
NumLookups == 3

\* the record of an earlier retrieve_similar_examples('led team') that found the
\* rows 1 and 2
InitLookups ==
    /\ kb = InitialFacets
    /\ cache = << [query_hash |-> get_query_hash(LedTeam, None, None),
                    result_ids |-> <<1, 2>>, count |-> 2, hit_count |-> 0] >>
    /\ ret = [op |-> "race", call |-> [c \in 1..NumLookups |-> Idle]]
    /\ nsteps = 0

NextLookups ==
    \/ \E c \in 1..NumLookups, k \in 1..MaxK : Begin(c, None, k) /\ UNCHANGED nsteps
    \/ \E c \in 1..NumLookups : Lookup(c) /\ UNCHANGED nsteps
    \/ \E c \in 1..NumLookups : Bump(c) /\ UNCHANGED nsteps

SpecLookups == InitLookups /\ [][NextLookups]_vars

-----------------------------------------------------------------------------
(* Properties of hybrid_search, under SpecHybrid *)

\* C1: the list hybrid_search returns never holds two entries with the same id
C1_NoDuplicateIds ==
    ret.op = "hybrid" =>
        \A i, j \in 1..Len(ret.result) : i # j => ret.result[i] # ret.result[j]

\* the semantic results, then the keyword results not among them, cut to top_k
SemanticThenKeywordOnly(semantic, keyword, top_k) ==
    LET KeywordOnly(i) == i \notin Range(semantic)
    IN  Take(semantic \o SelectSeq(keyword, KeywordOnly), top_k)

\* C2: hybrid_search returns the semantic results in their order, followed by the
\* keyword-only matches in keyword order, truncated to top_k
C2_SemanticThenKeyword ==
    ret.op = "hybrid" =>
        ret.result = SemanticThenKeywordOnly(ret.semantic, ret.keyword, ret.top_k)

-----------------------------------------------------------------------------
(* Properties of the cached retrieval, under Spec *)

\* C3: every retrieve_similar_examples call returns at most its own top_k entries
C3_TopKBound ==
    ret.op = "retrieve" => Len(ret.result) <= ret.top_k

\* a step that is a call right after a call with the same arguments, both cached
RepeatedCall ==
    /\ nsteps' = nsteps + 1
    /\ ret.op = "retrieve" /\ ret'.op = "retrieve"
    /\ ret.use_cache /\ ret'.use_cache
    /\ ret'.query_text = ret.query_text
    /\ ret'.profession = ret.profession
    /\ ret'.cv_section = ret.cv_section
    /\ ret'.top_k = ret.top_k
    /\ kb' = kb

\* C4: with the corpus fixed, the second of two consecutive identical calls with
\* use_cache=True returns the same ids in the same order as the first
C4_CacheIdempotent ==
    [][RepeatedCall => ret'.result = ret.result]_vars

\* a step that is a retrieve_similar_examples call with use_cache=True
CachedCall == nsteps' = nsteps + 1 /\ ret'.op = "retrieve" /\ ret'.use_cache

CalledKey == get_query_hash(ret'.query_text, ret'.profession, ret'.cv_section)

\* C5: hit_count goes up by exactly 1 on a call served from the record, and no
\* hit_count changes on a call that computes its result afresh
C5_HitCountCountsReuses ==
    [][CachedCall =>
        /\ ret'.path = "hit" =>
              /\ cache'[CalledKey].hit_count = cache[CalledKey].hit_count + 1
              /\ \A k \in DOMAIN cache \ {CalledKey} :
                    cache'[k].hit_count = cache[k].hit_count
        /\ ret'.path = "miss" =>
              \A k \in DOMAIN cache : cache'[k].hit_count = cache[k].hit_count]_vars

\* C6: no returned entry's current profession (cv_section) differs from a filter
\* that is set
C6_FacetFilter ==
    ret.op = "retrieve" =>
        \A n \in 1..Len(ret.result) :
            /\ Truthy(ret.profession) => kb[ret.result[n]].profession = ret.profession
            /\ Truthy(ret.cv_section) => kb[ret.result[n]].cv_section = ret.cv_section

-----------------------------------------------------------------------------
(* Properties of validate_generation, under SpecValidate *)

Validated == ret.op = "validate"

\* the tags of the reason returned; the all-passed text reports no issue
ReasonCodes == IF ret.out.reason = <<AllChecksPassed>> THEN {} ELSE Range(ret.out.reason)

\* C7: a generated text whose trimmed length is below 50 is returned as invalid
\* with the too-short issue in its reason
C7_ShortTextInvalid ==
    (Validated /\ Len(Strip(ret.generated_text)) < 50) =>
        (~ret.out.is_valid /\ TooShort \in Range(ret.out.reason))

\* some embedding of the call failed: generate_embedding returned None
EmbeddingFailed ==
    \/ GenEmbedding(ret.generated_text, ret.failing) = NoVec
    \/ QueryEmbedding(ret.query_text, ret.failing) = NoVec
    \/ \E n \in 1..Len(ret.context_examples) :
          ContextEmbedding(ret.context_examples, n, ret.failing) = NoVec

\* C8: when the embedding of the generated text, of the query text or of a context
\* entry fails, the call returns (True, validation skipped, 0.5)
C8_DegradedValidation ==
    (Validated /\ EmbeddingFailed) =>
        /\ ret.out.is_valid = TRUE
        /\ ret.out.reason = <<ValidationSkippedReason>>
        /\ ret.out.confidence = 50

\* a call whose only failed embedding is that of a context entry
C8_Witness ==
    /\ Validated
    /\ GenEmbedding(ret.generated_text, ret.failing) # NoVec
    /\ QueryEmbedding(ret.query_text, ret.failing) # NoVec
    /\ EmbeddingFailed
    /\ ret.out = ValidationSkipped

\* C9: with an empty context_examples list no grounding issue is reported, so a
\* text that passes the length, relevance and word-count checks is valid
C9_EmptyContextSkipsGrounding ==
    (Validated /\ ret.context_examples = <<>>) =>
        /\ PoorGrounding \notin Range(ret.out.reason)
        /\ (/\ ret.out.reason # <<ValidationSkippedReason>>
            /\ TooShort \notin Range(ret.out.reason)
            /\ LowRelevance \notin Range(ret.out.reason)
            /\ TooFewWords \notin Range(ret.out.reason)) => ret.out.is_valid

\* C10 as stated: on every return is_valid holds exactly when no issue is reported
\* and confidence > 0.5
C10_ValidIffNoIssues ==
    Validated => (ret.out.is_valid <=> (ReasonCodes = {} /\ ret.out.confidence > 50))

\* C10 amended: on every return but the validation-skipped one, is_valid holds
\* exactly when no issue is reported and confidence > 0.5
C10_ValidIffNoIssuesUnlessSkipped ==
    (Validated /\ ret.out.reason # <<ValidationSkippedReason>>) =>
        (ret.out.is_valid <=> (ReasonCodes = {} /\ ret.out.confidence > 50))

\* a verdict that is not skipped: valid, no issue reported, both penalties taken
C10_Witness ==
    /\ Validated
    /\ ret.out.reason = <<AllChecksPassed>>
    /\ ret.out.is_valid
    /\ ret.out.confidence = 75

\* C11: on a return that is not the validation-skipped one, confidence is 100
\* hundredths less 10 for a text without a digit and less 15 for a text without a
\* listed action verb, whatever issues are reported: one of 100, 90, 85, 75
C11_ConfidenceOnlyQualityPenalties ==
    (Validated /\ ret.out.reason # <<ValidationSkippedReason>>) =>
        /\ ret.out.confidence =
              100 - (IF \E n \in 1..Len(ret.generated_text) :
                            ret.generated_text[n] \in Digits
                     THEN 0 ELSE 10)
                  - (IF \E verb \in ActionVerbs : Contains(Lower(ret.generated_text), verb)
                     THEN 0 ELSE 15)
        /\ ret.out.confidence \in {100, 90, 85, 75}

\* a text with a digit and a verb that fails the length, relevance, grounding and
\* word-count checks together, and keeps full confidence
C11_Witness ==
    /\ Validated
    /\ ReasonCodes = {TooShort, LowRelevance, PoorGrounding, TooFewWords}
    /\ ret.out.confidence = 100

-----------------------------------------------------------------------------
(* Properties of the ranking and re-ranking, under Spec *)

\* a retrieve_similar_examples call that computed its result afresh
Missed == ret.op = "retrieve" /\ ret.path = "miss"

\* C12: in the list a cache-miss call returns, no entry has a smaller cosine
\* similarity to the query than an entry placed after it
C12_DescendingSimilarity ==
    Missed =>
        \A i, j \in 1..Len(ret.result) :
            i < j => ~CosineGt(generate_embedding(ret.query_text, TRUE),
                               parse_embedding_vector(ret.result[j]),
                               parse_embedding_vector(ret.result[i]))

-----------------------------------------------------------------------------
(* Properties of _rerank_results, under SpecRerank *)

Reranked == ret.op = "rerank"

\* C13: the list _rerank_results returns holds every entry as many times as the
\* list it was given, whether the scoring succeeded or failed
C13_RerankPermutation ==
    Reranked =>
        /\ Len(ret.out) = Len(ret.results)
        /\ \A i \in AllIds : Count(ret.out, {i}) = Count(ret.results, {i})

\* a scoring that succeeded and moved entries, on three distinct rows
C13_Witness ==
    /\ Reranked
    /\ ~RerankRaises(ret.results)
    /\ Cardinality(Range(ret.results)) = 3
    /\ ret.out # ret.results

\* the ranked top_k of the retrieval call recorded in ret
CalledTopK ==
    RankedTopK(kb, ret.query_text, ret.profession, ret.cv_section, ret.top_k, TRUE)

\* C14: when scoring an entry fails, _rerank_results returns the list it was given,
\* unchanged, and a retrieval whose re-ranking failed returns its similarity-ranked
\* top_k and, with use_cache, stores the ids of that list
C14_RerankFailOpen ==
    /\ (Reranked /\ RerankRaises(ret.results)) => ret.out = ret.results
    /\ (Missed /\ RerankRaises(CalledTopK)) =>
          /\ ret.result = CalledTopK
          /\ ret.use_cache =>
                LET key == get_query_hash(ret.query_text, ret.profession, ret.cv_section)
                IN  key \in DOMAIN cache /\ cache[key].result_ids = CalledTopK

\* a cached retrieval of two rows, one of them without word_count
C14_Witness ==
    /\ Missed
    /\ ret.use_cache
    /\ RerankRaises(CalledTopK)
    /\ Len(ret.result) = 2
    /\ ScoringRaises(ret.result[1]) # ScoringRaises(ret.result[2])

-----------------------------------------------------------------------------
(* Properties of the cache, under Spec *)

\* the fingerprint of the call recorded in ret
RetKey == get_query_hash(ret.query_text, ret.profession, ret.cv_section)

\* C15: a call with use_cache=False returns the list the same call returns on the
\* same corpus with an empty cache: the cache contents and the calls that ran
\* before do not influence it
C15_UncachedDeterministic ==
    (ret.op = "retrieve" /\ ~ret.use_cache) =>
        ret.result = RetrieveResult(kb, << >>, ret.query_text, ret.profession,
                                    ret.cv_section, ret.top_k, FALSE, TRUE)

\* an uncached call made while the cache holds, for the same fingerprint, a record
\* that resolves to a different non-empty list
C15_Witness ==
    /\ ret.op = "retrieve" /\ ~ret.use_cache
    /\ RetKey \in DOMAIN cache
    /\ CachedResults(kb, cache, RetKey) # <<>>
    /\ CachedResults(kb, cache, RetKey) # ret.result

\* a retrieve_similar_examples call served from the cache
Hit == ret.op = "retrieve" /\ ret.path = "hit"

\* C16: a cache hit returns, once each, exactly the rows of the current corpus
\* whose id is stored in the record; a stored id whose row is gone is left out
C16_HitResolvesAgainstCorpus ==
    Hit =>
        /\ Range(ret.result) = Range(cache[RetKey].result_ids) \cap DOMAIN kb
        /\ Cardinality(Range(ret.result)) = Len(ret.result)

\* a hit on a record one of whose stored ids was deleted after caching
C16_Witness ==
    /\ Hit
    /\ \E i \in Range(cache[RetKey].result_ids) : i \notin DOMAIN kb

-----------------------------------------------------------------------------
(* Properties of _get_query_hash, under SpecHash *)

\* the filter of a call as the caller meant it: None when not passed
MeantFilter(kwargs, name) == IF name \in DOMAIN kwargs THEN kwargs[name] ELSE None

SameTriple(a, b) ==
    /\ a.query_text = b.query_text
    /\ MeantFilter(a, "profession") = MeantFilter(b, "profession")
    /\ MeantFilter(a, "cv_section") = MeantFilter(b, "cv_section")

TwoHashes == ret.op = "hash" /\ ret.previous # NoCall

\* C17: two calls with the same query text, profession and cv_section, a filter
\* left out counting as None, get the same fingerprint
C17_HashFunctionOfTriple ==
    (TwoHashes /\ SameTriple(ret.kwargs, ret.previous.kwargs)) =>
        ret.query_hash = ret.previous.query_hash

\* a call that leaves both filters out after a call that passes both as None
C17_Witness ==
    /\ TwoHashes
    /\ DOMAIN ret.kwargs = {"query_text"}
    /\ DOMAIN ret.previous.kwargs = {"query_text", "profession", "cv_section"}
    /\ SameTriple(ret.kwargs, ret.previous.kwargs)
    /\ ret.query_hash = ret.previous.query_hash

-----------------------------------------------------------------------------
(* Properties of racing calls, under SpecRace *)

\* C18: at every moment of every interleaving the table holds at most one row
\* per fingerprint, and the result_ids of a row is the whole list of one of the
\* calls that wrote to that fingerprint, its count the length of that list
C18_OneCompleteRecord ==
    ret.op = "race" =>
        \A n \in 1..Len(cache) :
            /\ RowsWith(cache, cache[n].query_hash) = {n}
            /\ \E c \in Callers :
                  /\ ret.call[c].wrote
                  /\ RaceKey(c) = cache[n].query_hash
                  /\ cache[n].result_ids = ret.call[c].results
                  /\ cache[n].count = Len(ret.call[c].results)

\* two calls on one fingerprint that both missed and both wrote, with different
\* lists: the row holds the list of one of them
C18_Witness ==
    /\ ret.op = "race"
    /\ \A c \in Callers : ret.call[c].pc = "done" /\ ret.call[c].wrote
    /\ RaceKey(1) = RaceKey(2)
    /\ ret.call[1].results # ret.call[2].results
    /\ Len(cache) = 1

\* C19: a cache-miss call returns the re-ranking of its similarity-ranked top_k,
\* and with use_cache the record written holds the ids of the returned list in the
\* returned order: re-ranking works on the ranked list, caching on the final one
C19_RankRerankCache ==
    Missed =>
        /\ ret.result = rerank_results(CalledTopK)
        /\ ret.use_cache =>
              /\ RetKey \in DOMAIN cache
              /\ cache[RetKey].result_ids = ret.result

\* a cached miss whose re-ranking changed the ranked order
C19_Witness ==
    /\ Missed
    /\ ret.use_cache
    /\ ret.result # CalledTopK
    /\ cache[RetKey].result_ids = ret.result

-----------------------------------------------------------------------------
(* The frame of the four operations, under SpecFrame *)

RetrievalOps == {"retrieve", "hybrid", "rerank", "validate"}

\* C20: a step that is a call of retrieve_similar_examples, hybrid_search,
\* _rerank_results or validate_generation leaves every KnowledgeBase row as it was,
\* adds none and removes none; of kb and cache only cache can change, and only in
\* retrieve_similar_examples
C20_CorpusUnchanged ==
    [][ret'.op \in RetrievalOps =>
          /\ kb' = kb
          /\ cache' # cache => ret'.op = "retrieve"]_vars

\* a retrieval that wrote a RAGCache record, the corpus as constructed
C20_Witness ==
    /\ ret.op = "retrieve"
    /\ RetKey \in DOMAIN cache
    /\ kb = InitialFacets

-----------------------------------------------------------------------------
(* Properties of the scoring stage, under SpecScore *)

\* the embedding of the query of the call recorded in ret
RetQueryEmbedding == generate_embedding(ret.query_text, ret.backend_ok)

\* the rows of the corpus whose stored embedding parses and has the dimension of
\* the query embedding
Scorable ==
    {i \in DOMAIN kb : /\ EntryTable[i].json_ok
                       /\ Len(EntryTable[i].vec) = Len(RetQueryEmbedding)}

\* C21: when the query was embedded, a cache-miss call returns only rows whose
\* embedding parses and has the query's dimension, and as many of them as top_k
\* allows: the other rows are still scored and no row takes a place with a zero score
C21_UnscorableSkipped ==
    (Missed /\ RetQueryEmbedding # NoVec) =>
        /\ Range(ret.result) \subseteq Scorable
        /\ Len(ret.result) = Min(ret.top_k, Cardinality(Scorable))

\* a call for two rows on a corpus with one scorable row, one row that does not
\* parse and one of another dimension
C21_Witness ==
    /\ Missed /\ RetQueryEmbedding # NoVec
    /\ ret.top_k = 2
    /\ {4, 7} \subseteq DOMAIN kb
    /\ Len(ret.result) = 1

\* the list a valid query returns when no row matches
NoMatchingEntries == <<>>

\* C22: a call with an empty or whitespace-only query text has an outcome other
\* than the empty list of a valid query without matching rows
C22_EmptyQueryDistinguishable ==
    (ret.op = "retrieve" /\ Len(Strip(ret.query_text)) = 0) =>
        ret.result # NoMatchingEntries

\* the similarity-sorted list of the call recorded in ret, before the cut to top_k
RetRanked ==
    Ranked(kb, ret.query_text, ret.profession, ret.cv_section, ret.backend_ok)

\* two rows with the same cosine similarity to the query of the call
SameScore(a, b) ==
    /\ ~CosineGt(RetQueryEmbedding, parse_embedding_vector(a), parse_embedding_vector(b))
    /\ ~CosineGt(RetQueryEmbedding, parse_embedding_vector(b), parse_embedding_vector(a))

\* C23: in the similarity-sorted list of a cache-miss call, of two rows with equal
\* scores the one inserted earlier comes first
C23_TiesInInsertionOrder ==
    Missed =>
        \A i, j \in 1..Len(RetRanked) :
            (i < j /\ SameScore(RetRanked[i], RetRanked[j])) =>
                EntryTable[RetRanked[i]].created_at < EntryTable[RetRanked[j]].created_at

\* C24: a cache-miss call returns, in some order, the first top_k rows of the
\* similarity-sorted list: no returned row scores below a scored row left out
C24_TopKSetBySimilarity ==
    Missed =>
        /\ Range(ret.result) = Range(Take(RetRanked, ret.top_k))
        /\ Len(ret.result) = Cardinality(Range(ret.result))
        /\ \A a \in Range(ret.result), b \in Range(RetRanked) \ Range(ret.result) :
              ~CosineGt(RetQueryEmbedding, parse_embedding_vector(b),
                        parse_embedding_vector(a))

\* a scored row left out although its re-ranking score is above that of a row
\* returned
C24_Witness ==
    /\ Missed
    /\ \E a \in Range(ret.result), b \in Range(RetRanked) \ Range(ret.result) :
          /\ ~ScoringRaises(a) /\ ~ScoringRaises(b)
          /\ TotalScore(b) > TotalScore(a)

-----------------------------------------------------------------------------
(* Properties of the failure paths, under SpecFail *)

UncachedCall == nsteps' = nsteps + 1 /\ ret'.op = "retrieve" /\ ~ret'.use_cache

\* C26: a call with use_cache=False leaves the RAGCache table as it was: no record
\* added, no result_ids changed, no hit_count changed, whether the call succeeds
\* or a step of it fails
C26_UncachedLeavesCache ==
    [][UncachedCall => cache' = cache]_vars

\* an uncached call that returned rows while the cache holds a record for its
\* fingerprint with another list and no hit counted
C26_Witness ==
    /\ ret.op = "retrieve" /\ ~ret.use_cache
    /\ ret.result # <<>>
    /\ RetKey \in DOMAIN cache
    /\ cache[RetKey].result_ids # ret.result
    /\ cache[RetKey].hit_count = 0

-----------------------------------------------------------------------------
(* Properties of the legacy RAGService, under SpecLegacy *)

\* C27: the list the legacy retrieve_similar_examples returns holds no row whose
\* stored embedding has another dimension than the query embedding
C27_LegacySkipsMismatch ==
    ret.op = "legacy" =>
        \A n \in 1..Len(ret.result) :
            Len(EntryTable[ret.result[n]].vec)
                = Len(legacy_generate_embedding(ret.query, ret.backend_ok))

-----------------------------------------------------------------------------
(* Stale records, under Spec *)

\* a cached call that finds a record none of whose stored ids is in the corpus
StaleRecordCall ==
    /\ CachedCall
    /\ CalledKey \in DOMAIN cache
    /\ \A i \in Range(cache[CalledKey].result_ids) : i \notin DOMAIN kb

\* C28: a record whose stored ids resolve to no row is not served: the call counts
\* a hit on it, computes the result from the corpus and leaves that list in the
\* record
C28_StaleRecordRecomputed ==
    [][StaleRecordCall =>
          /\ ret'.path = "miss"
          /\ ret'.result = ComputeResults(kb, ret'.query_text, ret'.profession,
                                          ret'.cv_section, ret'.top_k, TRUE)
          /\ cache'[CalledKey].hit_count = cache[CalledKey].hit_count + 1
          /\ cache'[CalledKey].result_ids = ret'.result]_vars

\* a record that was found, counted and overwritten with a non-empty fresh list
C28_Witness ==
    /\ Missed
    /\ ret.use_cache
    /\ cache[RetKey].hit_count > 0
    /\ ret.result # <<>>
    /\ cache[RetKey].result_ids = ret.result

-----------------------------------------------------------------------------
(* Distinct triples, under SpecHash *)

\* C29: two calls whose (query_text, profession, cv_section) differ get different
\* fingerprints
C29_DistinctTriplesDistinctKeys ==
    (TwoHashes /\ ~SameTriple(ret.kwargs, ret.previous.kwargs)) =>
        ret.query_hash # ret.previous.query_hash

-----------------------------------------------------------------------------
(* Concurrent lookups, under SpecLookups *)

\* C30: no step of concurrent lookups lowers the hit_count stored in a record
C30_HitCountNeverDecreases ==
    [][\A n \in 1..Len(cache) : cache'[n].hit_count >= cache[n].hit_count]_vars

====
